---- MODULE Spec2Model ----
(***************************************************************************)
(* Beacon-chain state transition core (state-transition/core/              *)
(* state_processor.go): Transition, ProcessSlots, processSlot,             *)
(* ProcessBlock, processEpoch, processBlockHeader,                         *)
(* hollowProcessRewardsAndPenalties, processEffectiveBalanceUpdates.       *)
(*                                                                         *)
(* One call of Transition or ProcessSlots is a sequence of steps driven by *)
(* pc; every step is one function of the source.  The beacon state is the  *)
(* record st; the validator-set cache valSetByEpoch belongs to the         *)
(* long-lived StateProcessor.                                              *)
(***************************************************************************)
EXTENDS Integers, Sequences, FiniteSets, TLC

\* ---------------------------------------------------------------- bounds
MaxSlot == 4
NumValidators == 2
MaxBalance == 5
GenesisBalance == 3
RootMod == 2
MaxDepositIndex == 1
U64Mod == 4
NumWriters == 2

\* ------------------------------------------------- chain spec (sp.cs.*)
SlotsPerEpoch == 2
SlotsPerHistoricalRoot == 2
EffectiveBalanceIncrement == 2
MaxEffectiveIncrements == 1
MaxEffectiveBalance == MaxEffectiveIncrements * EffectiveBalanceIncrement
HysteresisQuotient == 2
HysteresisDownwardMultiplier == 1
HysteresisUpwardMultiplier == 2
BoonetFork2Height == 2
BoonetFork3Height == 4
GenesisEpoch == 0

BartioChainID == "bartio"
BoonetEth1ChainID == "boonet"
OtherChainID == "other"
ChainIDs == {BartioChainID, BoonetEth1ChainID, OtherChainID}

\* common.Root{} is the zero root; hash-tree-roots are the non-zero roots.
ZeroRoot == 0
Roots == 0..RootMod

ValidatorIndices == 0..(NumValidators - 1)
RingIndices == 0..(SlotsPerHistoricalRoot - 1)
MaxEpoch == MaxSlot \div SlotsPerEpoch

\* ----------------------------------------------------------- error kinds
NoError == "nil"
ErrStateAccess == "StateAccessError"
ErrValidatorNotFound == "ValidatorNotFound"
ErrSlotMismatch == "SlotMismatch"
ErrBlockSlotTooLow == "BlockSlotTooLow"
ErrProposerMismatch == "ProposerMismatch"
ErrParentRootMismatch == "ParentRootMismatch"
ErrSlashedProposer == "SlashedProposer"
ErrStateRootMismatch == "StateRootMismatch"
ErrExecutionPayloadRejected == "ExecutionPayloadRejected"
ErrInvalidWithdrawal == "InvalidWithdrawal"
ErrInvalidRandaoReveal == "InvalidRandaoReveal"
ErrInvalidOperation == "InvalidOperation"

VARIABLES
    chainId,        \* sp.cs.DepositEth1ChainID()
    st,             \* the BeaconState handed to the processor
    valSetByEpoch,  \* sp.valSetByEpoch
    valSetMu,       \* sp.valSetMu: the writer holding the lock, if any
    writers,        \* concurrent transitions at their validator-set update
    lastInstalled,  \* epoch -> the snapshot a writer last installed under it
    pc,             \* position inside the running call
    mode,           \* which exported method is running
    ctx,            \* ContextT of the running Transition
    blk,            \* BeaconBlockT of the running Transition
    env,            \* what the state store, the execution engine, the signer
                    \* and the deposit store answered in the running call
    slot,           \* ProcessSlots: the target slot argument
    stateSlot,      \* ProcessSlots: the loop counter
    res,            \* ProcessSlots: accumulated validator updates
    ret,            \* validator updates returned by the call
    err,            \* error returned by the call
    pre,            \* the state as it was when the call started
    preCache,       \* the cache as it was when the call started
    last,           \* the state before the latest step of the call
    rootLog,        \* slot -> root computed by processSlot before any write
    slotLog,        \* slots for which processSlot ran in this call
    epochLog,       \* slots for which processEpoch ran in this call
    stages,         \* sub-stages of ProcessBlock run in this call
    balanceOps,     \* balance operations issued in this call
    updateLog       \* validator updates of each epoch pass of this call

vars == <<chainId, st, valSetByEpoch, valSetMu, writers, lastInstalled, pc,
          mode, ctx, blk, env, slot, stateSlot, res, ret, err, pre,
          preCache, last, rootLog, slotLog, epochLog, stages, balanceOps,
          updateLog>>

\* ------------------------------------------------------- hash tree roots
\* A hash-tree-root is a function of the hashed value alone and is never
\* the zero root; distinct values may share a root.
RECURSIVE SumOf(_, _)
SumOf(f, n) == IF n = 0 THEN 0 ELSE f[n - 1] + SumOf(f, n - 1)

BodyHashTreeRoot(body) == 1 + (body.withdrawal % RootMod)

HeaderHashTreeRoot(h) ==
    1 + ((h.slot + h.proposerIndex + h.parentBlockRoot + h.stateRoot
          + h.bodyRoot) % RootMod)

ValidatorSum(v) ==
    v.pubkey + (v.effectiveBalance \div EffectiveBalanceIncrement)
        + (IF v.slashed THEN 1 ELSE 0)

HashTreeRoot(s) ==
    1 + ((s.slot
          + HeaderHashTreeRoot(s.latestBlockHeader)
          + SumOf(s.blockRoots, SlotsPerHistoricalRoot)
          + SumOf(s.stateRoots, SlotsPerHistoricalRoot)
          + s.eth1DepositIndex
          + SumOf([i \in ValidatorIndices |->
                      ValidatorSum(s.validators[i])], NumValidators)
          + SumOf(s.balances, NumValidators)) % RootMod)

\* ------------------------------------------------------------ the inputs
\* The block and the context are inputs of Transition.  Nothing depends on
\* a field before the code first reads it, so a field is drawn at the step
\* that first reads it and is recorded in blk or ctx from then on; a field
\* the call never reads keeps the value it has in NilBlock or NoContext.
\* A body carries at most one withdrawal, of validator 0.
Bodies == [withdrawal : 0..1]

NoBody == [withdrawal |-> 0]

NilBlock ==
    [isNil |-> TRUE, slot |-> 0, proposerIndex |-> 0, parentBlockRoot |-> 0,
     stateRoot |-> 0, body |-> NoBody]

BlockAtSlot(n) == [NilBlock EXCEPT !.isNil = FALSE, !.slot = n]

PubkeyOf(i) == i + 1

GetAddressFromPubKey(pubkey) == 10 * pubkey

ProposerAddresses ==
    {GetAddressFromPubKey(PubkeyOf(i)) : i \in ValidatorIndices}

NoContext == [proposerAddress |-> 0, skipValidateResult |-> FALSE]

\* The answers of the collaborators are inputs of the call as well: the
\* point at which the state store fails, if it does, and the verdicts on the
\* execution payload, the randao reveal and the operations.
NoFault == [slot |-> 0, stage |-> "none"]

NoEnv ==
    [accessFault |-> NoFault, payloadAccepted |-> TRUE,
     randaoValid |-> TRUE, operationsValid |-> TRUE]

EffectiveBalances ==
    {k * EffectiveBalanceIncrement : k \in 0..MaxEffectiveIncrements}

\* ------------------------------------------------------------ the state
DefaultHeader ==
    [slot |-> 0, proposerIndex |-> 0, parentBlockRoot |-> ZeroRoot,
     stateRoot |-> ZeroRoot, bodyRoot |-> ZeroRoot]

NoSnapshot == <<>>

EmptyLog == [s \in 0..MaxSlot |-> ZeroRoot]

Min(a, b) == IF a < b THEN a ELSE b

\* types.ComputeEffectiveBalance
ComputeEffectiveBalance(balance, increment, maxEffective) ==
    Min(balance - (balance % increment), maxEffective)

\* DefaultBeaconState, with the registry filled in: the validators have
\* distinct public keys and the last one is slashed.
DefaultBeaconState(idx, bals, ebs) ==
    [slot |-> 0,
     latestBlockHeader |-> DefaultHeader,
     blockRoots |-> [i \in RingIndices |-> ZeroRoot],
     stateRoots |-> [i \in RingIndices |-> ZeroRoot],
     eth1DepositIndex |-> idx,
     validators |-> [i \in ValidatorIndices |->
         [pubkey |-> PubkeyOf(i),
          effectiveBalance |-> ebs[i],
          slashed |-> (i = NumValidators - 1)]],
     balances |-> bals]

\* Transitions on other state instances share the validator-set cache; each
\* is followed from the point where it has reached its validator-set update.
Writers == 1..NumWriters

Unlocked == 0

IdleWriter == [pc |-> "idle", epoch |-> 0, current |-> NoSnapshot]

InitCall ==
    /\ valSetByEpoch = [e \in 0..MaxEpoch |-> NoSnapshot]
    /\ valSetMu = Unlocked
    /\ writers = [w \in Writers |-> IdleWriter]
    /\ lastInstalled = [e \in 0..MaxEpoch |-> NoSnapshot]
    /\ pc = "idle"
    /\ mode = "none"
    /\ ctx = NoContext
    /\ env = NoEnv
    /\ blk = NilBlock
    /\ slot = 0
    /\ stateSlot = 0
    /\ res = <<>>
    /\ ret = <<>>
    /\ err = NoError
    /\ pre = st
    /\ preCache = valSetByEpoch
    /\ last = st
    /\ rootLog = EmptyLog
    /\ slotLog = <<>>
    /\ epochLog = <<>>
    /\ stages = <<>>
    /\ balanceOps = <<>>
    /\ updateLog = <<>>

\* Genesis: every validator holds GenesisBalance and the effective balance
\* computed from it.
Init ==
    /\ chainId \in ChainIDs
    /\ \E idx \in 0..MaxDepositIndex :
        \* only the Boonet special case reads the deposit index; elsewhere
        \* it stands at its genesis value
        /\ chainId # BoonetEth1ChainID => idx = 0
        /\ st = DefaultBeaconState(idx,
                 [i \in ValidatorIndices |-> GenesisBalance],
                 [i \in ValidatorIndices |->
                     ComputeEffectiveBalance(GenesisBalance,
                         EffectiveBalanceIncrement, MaxEffectiveBalance)])
    /\ InitCall

\* Any balances and effective balances: the registry as it can stand when an
\* epoch ends.
InitEpoch ==
    /\ chainId = BartioChainID
    /\ \E bals \in [ValidatorIndices -> 0..MaxBalance],
          ebs \in [ValidatorIndices -> EffectiveBalances] :
        st = DefaultBeaconState(MaxDepositIndex, bals, ebs)
    /\ InitCall

\* --------------------------------------------------------- ProcessSlots
\* Mutant: the loop stops one slot short of the target.
AfterLoopTestOneShort(n, target, m) ==
    IF n + 1 < target THEN "processSlot"
    ELSE IF m = "Transition" THEN "processBlockHeader" ELSE "returnSlots"

\* Where the loop of ProcessSlots goes when its condition is evaluated with
\* counter n: into the body, or out to the caller.
AfterLoopTest(n, target, m) ==
    IF n < target THEN "processSlot"
    ELSE IF m = "Transition" THEN "processBlockHeader" ELSE "returnSlots"

StartCall(m, c, b, target) ==
    /\ mode' = m
    /\ ctx' = c
    /\ env' = NoEnv
    /\ blk' = b
    /\ slot' = target
    /\ pre' = st
    /\ preCache' = valSetByEpoch
    /\ last' = st
    /\ rootLog' = EmptyLog
    /\ slotLog' = <<>>
    /\ epochLog' = <<>>
    /\ stages' = <<>>
    /\ balanceOps' = <<>>
    /\ updateLog' = <<>>
    /\ res' = <<>>
    /\ ret' = <<>>
    /\ err' = NoError

\* Mutant: the accumulated updates are returned with the error.
FinishKeepingUpdates(updates, e) ==
    /\ pc' = "done"
    /\ ret' = res
    /\ err' = e

\* Mutant: the error of a failed step is dropped on the way out.
FinishRecovering(updates, e) ==
    /\ pc' = "done"
    /\ ret' = updates
    /\ err' = NoError

Finish(updates, e) ==
    /\ pc' = "done"
    /\ ret' = updates
    /\ err' = e

\* Mutant: the nil check is missing.
BlkIsNilNever(b) == FALSE

BlkIsNil(b) == b.isNil

\* Transition: the nil check, then the entry of ProcessSlots (GetSlot).
Transition ==
    /\ pc = "idle"
    /\ \E b \in {BlockAtSlot(n) : n \in 0..MaxSlot} \cup {NilBlock} :
        /\ StartCall("Transition", NoContext, b, b.slot)
        /\ IF BlkIsNil(b)
           THEN /\ pc' = "done"
                /\ stateSlot' = stateSlot
           ELSE /\ stateSlot' = st.slot
                /\ pc' = AfterLoopTest(st.slot, b.slot, "Transition")
    /\ UNCHANGED <<valSetMu, writers, lastInstalled,
                   chainId, st, valSetByEpoch>>

\* ProcessSlots called on its own.
ProcessSlots ==
    /\ pc = "idle"
    /\ \E target \in 0..MaxSlot :
        /\ StartCall("ProcessSlots", NoContext, NilBlock, target)
        /\ stateSlot' = st.slot
        /\ pc' = AfterLoopTest(st.slot, target, "ProcessSlots")
    /\ UNCHANGED <<valSetMu, writers, lastInstalled,
                   chainId, st, valSetByEpoch>>

\* Mutant: the state root is computed after the header has been filled.
ProcessSlotStateRootAfterFill(s) ==
    LET index == s.slot % SlotsPerHistoricalRoot
        latestHeader == s.latestBlockHeader
        filled == IF latestHeader.stateRoot = ZeroRoot
                  THEN [latestHeader EXCEPT !.stateRoot = HashTreeRoot(s)]
                  ELSE latestHeader
        prevStateRoot == HashTreeRoot([s EXCEPT !.latestBlockHeader = filled])
    IN  [s EXCEPT !.stateRoots[index] = prevStateRoot,
                  !.latestBlockHeader = filled,
                  !.blockRoots[index] = HeaderHashTreeRoot(filled)]

\* Mutant: the block root is taken from the header as fetched, before its
\* state root is filled in.
ProcessSlotStateRootBeforeFill(s) ==
    LET prevStateRoot == HashTreeRoot(s)
        index == s.slot % SlotsPerHistoricalRoot
        latestHeader == s.latestBlockHeader
        filled == IF latestHeader.stateRoot = ZeroRoot
                  THEN [latestHeader EXCEPT !.stateRoot = prevStateRoot]
                  ELSE latestHeader
    IN  [s EXCEPT !.stateRoots[index] = prevStateRoot,
                  !.latestBlockHeader = filled,
                  !.blockRoots[index] = HeaderHashTreeRoot(latestHeader)]

\* Mutant: the latest block header is never back-filled.
ProcessSlotStateWithoutFill(s) ==
    LET prevStateRoot == HashTreeRoot(s)
        index == s.slot % SlotsPerHistoricalRoot
    IN  [s EXCEPT !.stateRoots[index] = prevStateRoot,
                  !.blockRoots[index] =
                      HeaderHashTreeRoot(s.latestBlockHeader)]

\* Mutant: a ring entry that has been written is not overwritten.
ProcessSlotStateKeepingFirst(s) ==
    LET prevStateRoot == HashTreeRoot(s)
        index == s.slot % SlotsPerHistoricalRoot
        latestHeader == s.latestBlockHeader
        filled == IF latestHeader.stateRoot = ZeroRoot
                  THEN [latestHeader EXCEPT !.stateRoot = prevStateRoot]
                  ELSE latestHeader
    IN  [s EXCEPT !.stateRoots[index] =
                      IF @ = ZeroRoot THEN prevStateRoot ELSE @,
                  !.latestBlockHeader = filled,
                  !.blockRoots[index] = HeaderHashTreeRoot(filled)]

\* Mutant: the state root is written at the ring position of the next slot.
ProcessSlotStateRootAtNextIndex(s) ==
    LET prevStateRoot == HashTreeRoot(s)
        index == s.slot % SlotsPerHistoricalRoot
        latestHeader == s.latestBlockHeader
        filled == IF latestHeader.stateRoot = ZeroRoot
                  THEN [latestHeader EXCEPT !.stateRoot = prevStateRoot]
                  ELSE latestHeader
    IN  [s EXCEPT !.stateRoots[(s.slot + 1) % SlotsPerHistoricalRoot] =
                      prevStateRoot,
                  !.latestBlockHeader = filled,
                  !.blockRoots[index] = HeaderHashTreeRoot(filled)]

\* Mutant: processSlot advances the slot itself.
ProcessSlotStateAdvancingSlot(s) ==
    LET prevStateRoot == HashTreeRoot(s)
        index == s.slot % SlotsPerHistoricalRoot
        latestHeader == s.latestBlockHeader
        filled == IF latestHeader.stateRoot = ZeroRoot
                  THEN [latestHeader EXCEPT !.stateRoot = prevStateRoot]
                  ELSE latestHeader
    IN  [s EXCEPT !.stateRoots[index] = prevStateRoot,
                  !.latestBlockHeader = filled,
                  !.blockRoots[index] = HeaderHashTreeRoot(filled),
                  !.slot = @ + 1]

\* processSlot as a function of the state.
ProcessSlotState(s) ==
    LET prevStateRoot == HashTreeRoot(s)
        index == s.slot % SlotsPerHistoricalRoot
        latestHeader == s.latestBlockHeader
        filled == IF latestHeader.stateRoot = ZeroRoot
                  THEN [latestHeader EXCEPT !.stateRoot = prevStateRoot]
                  ELSE latestHeader
    IN  [s EXCEPT !.stateRoots[index] = prevStateRoot,
                  !.latestBlockHeader = filled,
                  !.blockRoots[index] = HeaderHashTreeRoot(filled)]

processSlot ==
    /\ pc = "processSlot"
    /\ last' = st
    /\ UNCHANGED stages
    /\ \E accessErr \in BOOLEAN :
        IF accessErr
        THEN /\ Finish(<<>>, ErrStateAccess)
             /\ env' = [env EXCEPT !.accessFault =
                            [slot |-> st.slot, stage |-> "processSlot"]]
             /\ UNCHANGED <<st, rootLog, slotLog>>
        ELSE /\ st' = ProcessSlotState(st)
             /\ rootLog' = [rootLog EXCEPT ![st.slot] = HashTreeRoot(st)]
             /\ slotLog' = Append(slotLog, st.slot)
             /\ pc' = "specialCases"
             /\ UNCHANGED <<ret, err, env>>
    /\ UNCHANGED <<valSetMu, writers, lastInstalled,
                   chainId, valSetByEpoch, mode, ctx, blk, slot, stateSlot,
                   res, pre, preCache, epochLog, balanceOps, updateLog>>

\* The "special cases" of the loop body: the Boonet deposit index fix, then
\* the epoch boundary test.
NeedsDepositIndexFix(chain, target, n) ==
    chain = BoonetEth1ChainID /\ target = BoonetFork2Height

\* Mutant: the boundary is taken at the first slot of an epoch.
IsBoundaryAtEpochStart(n) == n % SlotsPerEpoch = 0

IsBoundary(n) == (n + 1) % SlotsPerEpoch = 0

FixedDepositIdx(idx) == (idx + U64Mod - 1) % U64Mod

specialCases ==
    /\ pc = "specialCases"
    /\ last' = st
    /\ UNCHANGED stages
    /\ st' = IF NeedsDepositIndexFix(chainId, slot, stateSlot)
             THEN [st EXCEPT !.eth1DepositIndex = FixedDepositIdx(@)]
             ELSE st
    /\ pc' = IF IsBoundary(stateSlot) THEN "processEpoch" ELSE "setSlot"
    /\ UNCHANGED <<valSetMu, writers, lastInstalled,
                   chainId, env, valSetByEpoch, mode, ctx, blk, slot, stateSlot,
                   res, ret, err, pre, preCache, rootLog, slotLog, epochLog,
                   balanceOps, updateLog>>

\* Mutant: the slot is set one past the loop counter's successor.
SetSlotSkipping(s, n) == [s EXCEPT !.slot = n + 1]

\* st.SetSlot
SetSlot(s, n) == [s EXCEPT !.slot = n]

\* The end of the loop body: SetSlot(stateSlot + 1), stateSlot++, and the
\* loop test.
setSlot ==
    /\ pc = "setSlot"
    /\ last' = st
    /\ UNCHANGED stages
    /\ st' = SetSlot(st, stateSlot + 1)
    /\ stateSlot' = stateSlot + 1
    /\ pc' = AfterLoopTest(stateSlot + 1, slot, mode)
    /\ UNCHANGED <<valSetMu, writers, lastInstalled,
                   chainId, env, valSetByEpoch, mode, ctx, blk, slot, res, ret,
                   err, pre, preCache, rootLog, slotLog, epochLog, balanceOps,
                   updateLog>>

\* ProcessSlots returns res; Transition passes it on after ProcessBlock.
returnSlots ==
    /\ pc = "returnSlots"
    /\ last' = st
    /\ UNCHANGED stages
    /\ Finish(res, NoError)
    /\ UNCHANGED <<valSetMu, writers, lastInstalled,
                   chainId, env, st, valSetByEpoch, mode, ctx, blk, slot,
                   stateSlot, res, pre, preCache, rootLog, slotLog, epochLog,
                   balanceOps, updateLog>>

\* --------------------------------------------------------- processEpoch
SlotToEpoch(n) == n \div SlotsPerEpoch

\* The state accessor's balance operations (DecreaseBalance saturates).
IncreaseBalance(bals, i, delta) == [bals EXCEPT ![i] = @ + delta]

DecreaseBalance(bals, i, delta) ==
    [bals EXCEPT ![i] = IF delta > @ THEN 0 ELSE @ - delta]

\* hollowProcessRewardsAndPenalties: the operations it issues, in order.
RECURSIVE HollowOps(_, _)
HollowOps(i, valCount) ==
    IF i >= valCount THEN <<>>
    ELSE <<[op |-> "IncreaseBalance", index |-> i, delta |-> 0],
           [op |-> "DecreaseBalance", index |-> i, delta |-> 0]>>
         \o HollowOps(i + 1, valCount)

HollowProcessRewardsAndPenaltiesOps(s) ==
    IF SlotToEpoch(s.slot) = GenesisEpoch THEN <<>>
    ELSE HollowOps(0, NumValidators)

RECURSIVE ApplyBalanceOps(_, _)
ApplyBalanceOps(bals, ops) ==
    IF ops = <<>> THEN bals
    ELSE LET o == Head(ops)
         IN  ApplyBalanceOps(
                 IF o.op = "IncreaseBalance"
                 THEN IncreaseBalance(bals, o.index, o.delta)
                 ELSE DecreaseBalance(bals, o.index, o.delta),
                 Tail(ops))

\* Mutant: Boonet keeps the shim past BoonetFork3Height.
InRewardsForkWindowWithoutHeight(chain, n) ==
    chain = BartioChainID \/ chain = BoonetEth1ChainID

\* The switch at the head of processEpoch.
InRewardsForkWindow(chain, n) ==
    \/ chain = BartioChainID
    \/ chain = BoonetEth1ChainID /\ n < BoonetFork3Height

\* The balance operations processEpoch issues on state s.
RewardsAndPenaltiesOps(chain, s) ==
    IF InRewardsForkWindow(chain, s.slot)
    THEN HollowProcessRewardsAndPenaltiesOps(s)
    ELSE <<>>

\* processEpoch up to and including the rewards and penalties shim.
processEpoch ==
    /\ pc = "processEpoch"
    /\ last' = st
    /\ UNCHANGED stages
    /\ \E accessErr \in BOOLEAN :
        IF accessErr
        THEN /\ Finish(<<>>, ErrStateAccess)
             /\ env' = [env EXCEPT !.accessFault =
                            [slot |-> st.slot, stage |-> "processEpoch"]]
             /\ UNCHANGED <<st, epochLog, balanceOps>>
        ELSE LET ops == RewardsAndPenaltiesOps(chainId, st)
             IN  /\ st' = [st EXCEPT !.balances = ApplyBalanceOps(@, ops)]
                 /\ balanceOps' = balanceOps \o ops
                 /\ epochLog' = Append(epochLog, st.slot)
                 /\ pc' = "processEffectiveBalanceUpdates"
                 /\ UNCHANGED <<ret, err, env>>
    /\ UNCHANGED <<valSetMu, writers, lastInstalled,
                   chainId, valSetByEpoch, mode, ctx, blk, slot, stateSlot,
                   res, pre, preCache, rootLog, slotLog, updateLog>>

HysteresisIncrement == EffectiveBalanceIncrement \div HysteresisQuotient
DownwardThreshold == HysteresisIncrement * HysteresisDownwardMultiplier
UpwardThreshold == HysteresisIncrement * HysteresisUpwardMultiplier

ValidatorIndexByPubkey(s, pubkey) ==
    CHOOSE i \in ValidatorIndices : s.validators[i].pubkey = pubkey

\* Mutant: only the downward threshold is tested.
OutsideHysteresisDownOnly(balance, effective) ==
    balance + DownwardThreshold < effective

\* Mutant: the comparisons are not strict.
OutsideHysteresisNonStrict(balance, effective) ==
    \/ balance + DownwardThreshold <= effective
    \/ effective + UpwardThreshold <= balance

\* The condition under which the effective balance is recomputed.
OutsideHysteresis(balance, effective) ==
    \/ balance + DownwardThreshold < effective
    \/ effective + UpwardThreshold < balance

\* The loop of processEffectiveBalanceUpdates over the validators fetched
\* at its start, from position k on.
RECURSIVE EffectiveBalanceLoop(_, _, _)
EffectiveBalanceLoop(s, validators, k) ==
    IF k >= NumValidators THEN s
    ELSE LET val == validators[k]
             idx == ValidatorIndexByPubkey(s, val.pubkey)
             balance == s.balances[idx]
         IN  IF OutsideHysteresis(balance, val.effectiveBalance)
             THEN EffectiveBalanceLoop(
                      [s EXCEPT !.validators[idx] =
                          [val EXCEPT !.effectiveBalance =
                              ComputeEffectiveBalance(balance,
                                  EffectiveBalanceIncrement,
                                  MaxEffectiveBalance)]],
                      validators, k + 1)
             ELSE EffectiveBalanceLoop(s, validators, k + 1)

\* Mutant: the effective balances are taken from the snapshot the cache
\* holds for the epoch, when it holds one.
GetValidatorsThroughCache(s) ==
    LET cached == valSetByEpoch[SlotToEpoch(s.slot)]
    IN  [i \in ValidatorIndices |->
            IF cached = NoSnapshot THEN s.validators[i]
            ELSE [s.validators[i] EXCEPT !.effectiveBalance = cached[i]]]

\* st.GetValidators
GetValidators(s) == s.validators

processEffectiveBalanceUpdates ==
    /\ pc = "processEffectiveBalanceUpdates"
    /\ last' = st
    /\ UNCHANGED stages
    /\ st' = EffectiveBalanceLoop(st, GetValidators(st), 0)
    /\ pc' = "processValidatorsSetUpdates"
    /\ UNCHANGED <<valSetMu, writers, lastInstalled,
                   chainId, env, valSetByEpoch, mode, ctx, blk, slot, stateSlot,
                   res, ret, err, pre, preCache, rootLog, slotLog, epochLog,
                   balanceOps, updateLog>>

\* processSlashingsReset and processRandaoMixesReset write only the
\* slashings and randao mixes, which st does not carry.
\* processValidatorsSetUpdates: the snapshot of the current epoch is compared
\* with the cached snapshot of the previous epoch, installed under the
\* current epoch, and entries older than the previous epoch are evicted.
ActiveValidators(s) ==
    [i \in ValidatorIndices |-> s.validators[i].effectiveBalance]

RECURSIVE ValidatorSetDiff(_, _, _, _)
ValidatorSetDiff(s, previous, current, i) ==
    IF i >= NumValidators THEN <<>>
    ELSE (IF previous = NoSnapshot \/ previous[i] # current[i]
          THEN <<[pubkey |-> s.validators[i].pubkey,
                  effectiveBalance |-> current[i]]>>
          ELSE <<>>)
         \o ValidatorSetDiff(s, previous, current, i + 1)

PreviousSnapshot(cache, epoch) ==
    IF epoch = 0 THEN NoSnapshot ELSE cache[epoch - 1]

\* Mutant: nothing is evicted.
InstallSnapshotWithoutEviction(cache, epoch, current) ==
    [e \in 0..MaxEpoch |-> IF e = epoch THEN current ELSE cache[e]]

InstallSnapshot(cache, epoch, current) ==
    [e \in 0..MaxEpoch |->
        IF e = epoch THEN current
        ELSE IF e + 1 < epoch THEN NoSnapshot
        ELSE cache[e]]

processValidatorsSetUpdates ==
    /\ pc = "processValidatorsSetUpdates"
    /\ valSetMu = Unlocked
    /\ last' = st
    /\ UNCHANGED stages
    /\ LET epoch == SlotToEpoch(st.slot)
           current == ActiveValidators(st)
           previous == PreviousSnapshot(valSetByEpoch, epoch)
           epochUpdates == ValidatorSetDiff(st, previous, current, 0)
       IN  /\ res' = res \o epochUpdates
           /\ updateLog' = Append(updateLog, epochUpdates)
           /\ valSetByEpoch' = InstallSnapshot(valSetByEpoch, epoch, current)
    /\ pc' = "setSlot"
    /\ UNCHANGED <<valSetMu, writers, lastInstalled,
                   chainId, env, st, mode, ctx, blk, slot, stateSlot, ret, err,
                   pre, preCache, rootLog, slotLog, epochLog, balanceOps>>

\* ------------------------------------- concurrent validator-set updates
\* The slots at which a transition on another state instance can reach its
\* validator-set update, and the state it has then: the registry of the
\* genesis state with the effective balance of validator 0 as that branch
\* has it.
WriterSlots ==
    {n \in 0..(SlotsPerEpoch * (MaxEpoch + 1) - 1) : IsBoundary(n)}

WriterState(n, eb) ==
    [DefaultBeaconState(0, [i \in ValidatorIndices |-> 0],
         [i \in ValidatorIndices |->
             IF i = 0 THEN eb ELSE MaxEffectiveBalance])
     EXCEPT !.slot = n]

\* The snapshot is built from the writer's own state, without the lock.
buildSnapshot ==
    /\ \E w \in Writers, n \in WriterSlots, eb \in EffectiveBalances :
        /\ writers[w].pc = "idle"
        /\ writers' = [writers EXCEPT ![w] =
               [pc |-> "lock",
                epoch |-> SlotToEpoch(n),
                current |-> ActiveValidators(WriterState(n, eb))]]
    /\ UNCHANGED <<chainId, env, st, valSetByEpoch, valSetMu, lastInstalled, pc,
                   mode, ctx, blk, slot, stateSlot, res, ret, err, pre,
                   preCache, last, rootLog, slotLog, epochLog, stages,
                   balanceOps, updateLog>>

\* Mutant: the lock is granted while another writer holds it.
CanLockAlways(mu) == TRUE

\* sp.valSetMu.Lock() returns when no other holder is left.
CanLock(mu) == mu = Unlocked

lockValSetMu ==
    /\ \E w \in Writers :
        /\ writers[w].pc = "lock"
        /\ CanLock(valSetMu)
        /\ valSetMu' = w
        /\ writers' = [writers EXCEPT ![w].pc = "install"]
    /\ UNCHANGED <<chainId, env, st, valSetByEpoch, lastInstalled, pc,
                   mode, ctx, blk, slot, stateSlot, res, ret, err, pre,
                   preCache, last, rootLog, slotLog, epochLog, stages,
                   balanceOps, updateLog>>

\* The map mutation: insert under the epoch, evict the older entries.
installSnapshot ==
    /\ \E w \in Writers :
        /\ writers[w].pc = "install"
        /\ valSetByEpoch' = InstallSnapshot(valSetByEpoch,
               writers[w].epoch, writers[w].current)
        /\ lastInstalled' = [lastInstalled EXCEPT
               ![writers[w].epoch] = writers[w].current]
        /\ writers' = [writers EXCEPT ![w].pc = "unlock"]
    /\ UNCHANGED <<chainId, env, st, valSetMu, pc,
                   mode, ctx, blk, slot, stateSlot, res, ret, err, pre,
                   preCache, last, rootLog, slotLog, epochLog, stages,
                   balanceOps, updateLog>>

unlockValSetMu ==
    /\ \E w \in Writers :
        /\ writers[w].pc = "unlock"
        /\ valSetMu' = Unlocked
        /\ writers' = [writers EXCEPT ![w] = IdleWriter]
    /\ UNCHANGED <<chainId, env, st, valSetByEpoch, lastInstalled, pc,
                   mode, ctx, blk, slot, stateSlot, res, ret, err, pre,
                   preCache, last, rootLog, slotLog, epochLog, stages,
                   balanceOps, updateLog>>

\* --------------------------------------------------------- ProcessBlock
\* Mutant: the body root is left zero.
NewHeaderWithoutBodyRoot(b) ==
    [slot |-> b.slot,
     proposerIndex |-> b.proposerIndex,
     parentBlockRoot |-> b.parentBlockRoot,
     stateRoot |-> ZeroRoot,
     bodyRoot |-> ZeroRoot]

NewHeader(b) ==
    [slot |-> b.slot,
     proposerIndex |-> b.proposerIndex,
     parentBlockRoot |-> b.parentBlockRoot,
     stateRoot |-> ZeroRoot,
     bodyRoot |-> BodyHashTreeRoot(b.body)]

\* Mutant: a block below the state's slot passes the slot check.
SlotMatchesOrBelow(s, b) == b.slot <= s.slot

SlotMatches(s, b) == b.slot = s.slot

\* Mutant: a block at the slot of the latest header passes.
SlotNotBelowLatestHeader(s, b) == b.slot >= s.latestBlockHeader.slot

SlotAboveLatestHeader(s, b) == b.slot > s.latestBlockHeader.slot

ProposerMatches(c, s, b) ==
    GetAddressFromPubKey(s.validators[b.proposerIndex].pubkey)
        = c.proposerAddress

ParentRootMatches(s, b) ==
    HeaderHashTreeRoot(s.latestBlockHeader) = b.parentBlockRoot

\* Mutant: the parent root is compared before the proposer address.
BlockHeaderErrorParentRootFirst(c, s, b) ==
    IF ~SlotMatches(s, b) THEN ErrSlotMismatch
    ELSE IF ~SlotAboveLatestHeader(s, b) THEN ErrBlockSlotTooLow
    ELSE IF b.proposerIndex \notin ValidatorIndices
         THEN ErrValidatorNotFound
    ELSE IF ~ParentRootMatches(s, b) THEN ErrParentRootMismatch
    ELSE IF ~ProposerMatches(c, s, b) THEN ErrProposerMismatch
    ELSE IF s.validators[b.proposerIndex].slashed THEN ErrSlashedProposer
    ELSE NoError

\* Mutant: the slashed flag of the proposer is not consulted.
BlockHeaderErrorIgnoringSlashed(c, s, b) ==
    IF ~SlotMatches(s, b) THEN ErrSlotMismatch
    ELSE IF ~SlotAboveLatestHeader(s, b) THEN ErrBlockSlotTooLow
    ELSE IF b.proposerIndex \notin ValidatorIndices
         THEN ErrValidatorNotFound
    ELSE IF ~ProposerMatches(c, s, b) THEN ErrProposerMismatch
    ELSE IF ~ParentRootMatches(s, b) THEN ErrParentRootMismatch
    ELSE NoError

\* The checks of processBlockHeader, in the order of the code; the result
\* is the error it returns.
BlockHeaderError(c, s, b) ==
    IF ~SlotMatches(s, b) THEN ErrSlotMismatch
    ELSE IF ~SlotAboveLatestHeader(s, b) THEN ErrBlockSlotTooLow
    ELSE IF b.proposerIndex \notin ValidatorIndices
         THEN ErrValidatorNotFound
    ELSE IF ~ProposerMatches(c, s, b) THEN ErrProposerMismatch
    ELSE IF ~ParentRootMatches(s, b) THEN ErrParentRootMismatch
    ELSE IF s.validators[b.proposerIndex].slashed THEN ErrSlashedProposer
    ELSE NoError

processBlockHeader ==
    /\ pc = "processBlockHeader"
    /\ last' = st
    /\ stages' = Append(stages, "processBlockHeader")
    /\ \E proposerIndex \in 0..NumValidators, parentBlockRoot \in Roots,
          body \in Bodies, proposerAddress \in ProposerAddresses \cup {0} :
        /\ blk' = [blk EXCEPT !.proposerIndex = proposerIndex,
                              !.parentBlockRoot = parentBlockRoot,
                              !.body = body]
        /\ ctx' = [ctx EXCEPT !.proposerAddress = proposerAddress]
        \* each field is read at the check that needs it: the slot checks
        \* read the slot only, the proposer address is read once the
        \* proposer is found, the parent root once the address matches,
        \* and only an accepted header has its body read
        /\ IF ~(SlotMatches(st, blk) /\ SlotAboveLatestHeader(st, blk))
           THEN blk' = blk /\ ctx' = ctx
           ELSE IF proposerIndex \notin ValidatorIndices
           THEN proposerAddress = 0 /\ parentBlockRoot = blk.parentBlockRoot
           ELSE /\ proposerAddress # 0
                /\ ~ProposerMatches(ctx', st, blk')
                       => parentBlockRoot = blk.parentBlockRoot
        /\ BlockHeaderError(ctx', st, blk') # NoError => body = NoBody
    /\ LET e == BlockHeaderError(ctx', st, blk')
       IN  IF e # NoError
           THEN /\ Finish(<<>>, e)
                /\ UNCHANGED st
           ELSE /\ st' = [st EXCEPT !.latestBlockHeader = NewHeader(blk')]
                /\ pc' = "processExecutionPayload"
                /\ UNCHANGED <<ret, err>>
    /\ UNCHANGED <<valSetMu, writers, lastInstalled,
                   chainId, env, valSetByEpoch, mode, slot, stateSlot,
                   res, pre, preCache, rootLog, slotLog, epochLog, balanceOps,
                   updateLog>>

\* The verdict comes from the execution engine.
processExecutionPayload ==
    /\ pc = "processExecutionPayload"
    /\ last' = st
    /\ stages' = Append(stages, "processExecutionPayload")
    /\ \E accepted \in BOOLEAN :
        /\ env' = [env EXCEPT !.payloadAccepted = accepted]
        /\ IF accepted
           THEN /\ pc' = "processWithdrawals"
                /\ UNCHANGED <<ret, err>>
           ELSE Finish(<<>>, ErrExecutionPayloadRejected)
    /\ UNCHANGED <<valSetMu, writers, lastInstalled,
                   chainId, st, valSetByEpoch, mode, ctx, blk, slot,
                   stateSlot, res, pre, preCache, rootLog, slotLog, epochLog,
                   balanceOps, updateLog>>

\* A withdrawal takes WithdrawalAmount from validator 0; it is invalid when
\* the balance does not cover it.
WithdrawalAmount == 1

processWithdrawals ==
    /\ pc = "processWithdrawals"
    /\ last' = st
    /\ stages' = Append(stages, "processWithdrawals")
    /\ LET w == blk.body.withdrawal
       IN  IF w = 0
           THEN /\ pc' = "processRandaoReveal"
                /\ UNCHANGED <<st, ret, err>>
           ELSE IF st.balances[0] < WithdrawalAmount
           THEN /\ Finish(<<>>, ErrInvalidWithdrawal)
                /\ UNCHANGED st
           ELSE /\ st' = [st EXCEPT !.balances =
                             DecreaseBalance(@, 0, WithdrawalAmount)]
                /\ pc' = "processRandaoReveal"
                /\ UNCHANGED <<ret, err>>
    /\ UNCHANGED <<valSetMu, writers, lastInstalled,
                   chainId, env, valSetByEpoch, mode, ctx, blk, slot, stateSlot,
                   res, pre, preCache, rootLog, slotLog, epochLog, balanceOps,
                   updateLog>>

\* The verdict comes from the BLS signer.
processRandaoReveal ==
    /\ pc = "processRandaoReveal"
    /\ last' = st
    /\ stages' = Append(stages, "processRandaoReveal")
    /\ \E valid \in BOOLEAN :
        /\ env' = [env EXCEPT !.randaoValid = valid]
        /\ IF valid
           THEN /\ pc' = "processOperations"
                /\ UNCHANGED <<ret, err>>
           ELSE Finish(<<>>, ErrInvalidRandaoReveal)
    /\ UNCHANGED <<valSetMu, writers, lastInstalled,
                   chainId, st, valSetByEpoch, mode, ctx, blk, slot,
                   stateSlot, res, pre, preCache, rootLog, slotLog, epochLog,
                   balanceOps, updateLog>>

\* The operations of the body are checked against the deposit store.
processOperations ==
    /\ pc = "processOperations"
    /\ last' = st
    /\ stages' = Append(stages, "processOperations")
    /\ \E valid \in BOOLEAN :
        /\ env' = [env EXCEPT !.operationsValid = valid]
        /\ IF valid
           THEN /\ pc' = "validateStateRoot"
                /\ UNCHANGED <<ret, err>>
           ELSE Finish(<<>>, ErrInvalidOperation)
    /\ UNCHANGED <<valSetMu, writers, lastInstalled,
                   chainId, st, valSetByEpoch, mode, ctx, blk, slot,
                   stateSlot, res, pre, preCache, rootLog, slotLog, epochLog,
                   balanceOps, updateLog>>

\* Mutant: the roots are never compared.
StateRootErrorUnchecked(c, s, b) == NoError

\* Mutant: the skip flag is not consulted.
StateRootErrorIgnoringSkip(c, s, b) ==
    IF b.stateRoot # HashTreeRoot(s) THEN ErrStateRootMismatch ELSE NoError

\* The tail of ProcessBlock: the optional state root check.
StateRootError(c, s, b) ==
    IF c.skipValidateResult THEN NoError
    ELSE IF b.stateRoot # HashTreeRoot(s) THEN ErrStateRootMismatch
    ELSE NoError

validateStateRoot ==
    /\ pc = "validateStateRoot"
    /\ last' = st
    /\ stages' = Append(stages, "validateStateRoot")
    /\ \E skipValidateResult \in BOOLEAN, stateRoot \in Roots :
        /\ ctx' = [ctx EXCEPT !.skipValidateResult = skipValidateResult]
        /\ blk' = [blk EXCEPT !.stateRoot = stateRoot]
    /\ LET e == StateRootError(ctx', st, blk')
       IN  IF e # NoError THEN Finish(<<>>, e) ELSE Finish(res, NoError)
    /\ UNCHANGED <<valSetMu, writers, lastInstalled,
                   chainId, env, st, valSetByEpoch, mode, slot,
                   stateSlot, res, pre, preCache, rootLog, slotLog, epochLog,
                   balanceOps, updateLog>>

\* ------------------------------------------- the transition as a function
\* What a call computes from the chain, the state, the block, the context
\* and the answers of the collaborators, and from nothing else: the error
\* it returns and the state it leaves.
EpochState(chain, s) ==
    LET ops == RewardsAndPenaltiesOps(chain, s)
        rewarded == [s EXCEPT !.balances = ApplyBalanceOps(@, ops)]
    IN  EffectiveBalanceLoop(rewarded, rewarded.validators, 0)

RECURSIVE ProcessSlotsResult(_, _, _, _)
ProcessSlotsResult(chain, s, target, e) ==
    IF s.slot >= target THEN [err |-> NoError, st |-> s]
    ELSE IF e.accessFault = [slot |-> s.slot, stage |-> "processSlot"]
    THEN [err |-> ErrStateAccess, st |-> s]
    ELSE LET slotted == ProcessSlotState(s)
             fixed == IF NeedsDepositIndexFix(chain, target, s.slot)
                      THEN [slotted EXCEPT
                               !.eth1DepositIndex = FixedDepositIdx(@)]
                      ELSE slotted
         IN  IF ~IsBoundary(s.slot)
             THEN ProcessSlotsResult(chain, SetSlot(fixed, s.slot + 1),
                      target, e)
             ELSE IF e.accessFault
                         = [slot |-> s.slot, stage |-> "processEpoch"]
             THEN [err |-> ErrStateAccess, st |-> fixed]
             ELSE ProcessSlotsResult(chain,
                      SetSlot(EpochState(chain, fixed), s.slot + 1),
                      target, e)

ProcessBlockResult(c, s, b, e) ==
    LET headerErr == BlockHeaderError(c, s, b)
        headed == [s EXCEPT !.latestBlockHeader = NewHeader(b)]
        withdrawn == IF b.body.withdrawal = 0 THEN headed
                     ELSE [headed EXCEPT !.balances =
                              DecreaseBalance(@, 0, WithdrawalAmount)]
    IN  IF headerErr # NoError THEN [err |-> headerErr, st |-> s]
        ELSE IF ~e.payloadAccepted
        THEN [err |-> ErrExecutionPayloadRejected, st |-> headed]
        ELSE IF b.body.withdrawal # 0
                  /\ headed.balances[0] < WithdrawalAmount
        THEN [err |-> ErrInvalidWithdrawal, st |-> headed]
        ELSE IF ~e.randaoValid
        THEN [err |-> ErrInvalidRandaoReveal, st |-> withdrawn]
        ELSE IF ~e.operationsValid
        THEN [err |-> ErrInvalidOperation, st |-> withdrawn]
        ELSE [err |-> StateRootError(c, withdrawn, b), st |-> withdrawn]

TransitionResult(chain, c, s, b, e) ==
    IF BlkIsNil(b) THEN [err |-> NoError, st |-> s]
    ELSE LET slots == ProcessSlotsResult(chain, s, b.slot, e)
         IN  IF slots.err # NoError THEN slots
             ELSE ProcessBlockResult(c, slots.st, b, e)

\* ------------------------------------------------------------ the caller
\* The call has returned.  A state on which a call failed is discarded: the
\* caller goes on with the state it had before the call.
Return ==
    /\ pc = "done"
    /\ pc' = "idle"
    /\ st' = IF err # NoError THEN pre ELSE st
    /\ pre' = st'
    /\ last' = st'
    /\ preCache' = valSetByEpoch
    /\ mode' = "none"
    /\ ctx' = NoContext
    /\ env' = NoEnv
    /\ blk' = NilBlock
    /\ slot' = 0
    /\ stateSlot' = 0
    /\ res' = <<>>
    /\ ret' = <<>>
    /\ err' = NoError
    /\ rootLog' = EmptyLog
    /\ slotLog' = <<>>
    /\ epochLog' = <<>>
    /\ stages' = <<>>
    /\ balanceOps' = <<>>
    /\ updateLog' = <<>>
    /\ UNCHANGED <<valSetMu, writers, lastInstalled,
                   chainId, valSetByEpoch>>

Next ==
    \/ Transition
    \/ ProcessSlots
    \/ processSlot
    \/ specialCases
    \/ processEpoch
    \/ processEffectiveBalanceUpdates
    \/ processValidatorsSetUpdates
    \/ setSlot
    \/ returnSlots
    \/ processBlockHeader
    \/ processExecutionPayload
    \/ processWithdrawals
    \/ processRandaoReveal
    \/ processOperations
    \/ validateStateRoot
    \/ Return

Spec == Init /\ [][Next]_vars

\* ProcessSlots alone, from any registry.
NextSlots ==
    \/ ProcessSlots
    \/ processSlot
    \/ specialCases
    \/ processEpoch
    \/ processEffectiveBalanceUpdates
    \/ processValidatorsSetUpdates
    \/ setSlot
    \/ returnSlots
    \/ Return

SpecEpoch == InitEpoch /\ [][NextSlots]_vars

\* The validator-set updates of transitions that run concurrently on their
\* own state instances, against the shared cache.
InitCache ==
    /\ chainId = BartioChainID
    /\ st = DefaultBeaconState(0,
                 [i \in ValidatorIndices |-> GenesisBalance],
                 [i \in ValidatorIndices |->
                     ComputeEffectiveBalance(GenesisBalance,
                         EffectiveBalanceIncrement, MaxEffectiveBalance)])
    /\ InitCall

NextCache ==
    \/ buildSnapshot
    \/ lockValSetMu
    \/ installSnapshot
    \/ unlockValSetMu

SpecCache == InitCache /\ [][NextCache]_vars

\* A call runs to its end without suspension: some step is always taken.
SpecSlotsFair == Init /\ [][NextSlots]_vars /\ WF_vars(NextSlots)

\* ================================================================ claims
BlockStages ==
    <<"processBlockHeader", "processExecutionPayload", "processWithdrawals",
      "processRandaoReveal", "processOperations", "validateStateRoot">>

\* Transition has returned from a call with a block.
ReturnedWithBlock == pc = "done" /\ mode = "Transition" /\ ~blk.isNil

\* All sub-stages of ProcessBlock before the state root check succeeded and
\* ProcessBlock has returned.
ReachedStateRootCheck == ReturnedWithBlock /\ stages = BlockStages

Abs(n) == IF n < 0 THEN 0 - n ELSE n

Max(a, b) == IF a > b THEN a ELSE b

\* C1: with skip_validate_result = false, a block whose sub-stages have all
\* run is accepted exactly when the hash-tree-root of the state they leave
\* equals block.state_root, and is otherwise refused with StateRootMismatch.
C1_RootLaw ==
    (ReachedStateRootCheck /\ ~ctx.skipValidateResult) =>
        /\ err = NoError <=> HashTreeRoot(st) = blk.stateRoot
        /\ HashTreeRoot(st) # blk.stateRoot => err = ErrStateRootMismatch

C1_Witness ==
    /\ ReachedStateRootCheck
    /\ ~ctx.skipValidateResult
    /\ err = NoError
    /\ st.balances # pre.balances

\* The call has returned and its slot processing ran to the end.
ReturnedPastSlots == pc = "done" /\ err # ErrStateAccess

\* C2 as stated: when a call has returned, every slot the call advanced
\* over still has, in state_roots, the root processSlot computed for it.
C2_EverySlotKeepsItsRoot ==
    ReturnedPastSlots =>
        \A s \in 0..MaxSlot :
            (pre.slot <= s /\ s < st.slot) =>
                st.stateRoots[s % SlotsPerHistoricalRoot] = rootLog[s]

\* C2 amended: when a call has returned, each of the last
\* SlotsPerHistoricalRoot slots the call advanced over has, in state_roots,
\* the root processSlot computed for it before any write.
C2_RecentSlotsKeepTheirRoot ==
    ReturnedPastSlots =>
        \A s \in 0..MaxSlot :
            (pre.slot <= s /\ s < st.slot
                /\ s + SlotsPerHistoricalRoot >= st.slot) =>
                st.stateRoots[s % SlotsPerHistoricalRoot] = rootLog[s]

C2_Witness ==
    /\ pc = "done"
    /\ err = NoError
    /\ st.slot > pre.slot + SlotsPerHistoricalRoot
    /\ st.stateRoots[pre.slot % SlotsPerHistoricalRoot] # rootLog[pre.slot]

\* C3: when processSlot has handled slot s, block_roots[s mod N_h] is the
\* hash-tree-root of the latest block header as stored; a header whose state
\* root was zero now carries the pre-slot state root, the value also written
\* to state_roots[s mod N_h], and any other header is unchanged.
C3_BlockRootOfFilledHeader ==
    pc = "specialCases" =>
        LET index == st.slot % SlotsPerHistoricalRoot
            old == last.latestBlockHeader
        IN  /\ st.blockRoots[index]
                   = HeaderHashTreeRoot(st.latestBlockHeader)
            /\ st.stateRoots[index] = HashTreeRoot(last)
            /\ old.stateRoot = ZeroRoot =>
                   st.latestBlockHeader
                       = [old EXCEPT !.stateRoot = st.stateRoots[index]]
            /\ old.stateRoot # ZeroRoot => st.latestBlockHeader = old

C3_Witness ==
    /\ pc = "specialCases"
    /\ last.latestBlockHeader.stateRoot = ZeroRoot
    /\ last.latestBlockHeader.slot > 0
    /\ HeaderHashTreeRoot(st.latestBlockHeader)
           # HeaderHashTreeRoot(last.latestBlockHeader)

\* C4: after Transition has accepted a block, the latest block header has
\* the block's slot, proposer index and parent root, the hash-tree-root of
\* the block's body, and a zero state root.
C4_HeaderOfAcceptedBlock ==
    (ReturnedWithBlock /\ err = NoError) =>
        /\ st.latestBlockHeader.slot = blk.slot
        /\ st.latestBlockHeader.proposerIndex = blk.proposerIndex
        /\ st.latestBlockHeader.parentBlockRoot = blk.parentBlockRoot
        /\ st.latestBlockHeader.bodyRoot = BodyHashTreeRoot(blk.body)
        /\ st.latestBlockHeader.stateRoot = ZeroRoot

C4_Witness ==
    /\ ReturnedWithBlock
    /\ err = NoError
    /\ blk.body.withdrawal = 1
    /\ pre.latestBlockHeader.slot > 0

\* The slots s in [from, to) with (s + 1) mod slots_per_epoch = 0, ascending.
RECURSIVE EpochEnds(_, _)
EpochEnds(from, to) ==
    IF from >= to THEN <<>>
    ELSE (IF (from + 1) % SlotsPerEpoch = 0 THEN <<from>> ELSE <<>>)
         \o EpochEnds(from + 1, to)

SlotsPhase ==
    {"processSlot", "specialCases", "processEpoch",
     "processEffectiveBalanceUpdates", "processValidatorsSetUpdates",
     "setSlot"}

\* C5: processEpoch runs once for each slot s in [pre.slot, target) with
\* (s + 1) mod slots_per_epoch = 0, in order, and for no other slot; no pass
\* runs once ProcessBlock has started, and none is run after the block.
C5_EpochPasses ==
    /\ pc = "processSlot" => epochLog = EpochEnds(pre.slot, stateSlot)
    /\ pc \in SlotsPhase => stages = <<>>
    /\ (\/ pc = "returnSlots"
        \/ \E k \in 1..Len(BlockStages) : pc = BlockStages[k]
        \/ pc = "done" /\ err # ErrStateAccess /\ mode = "ProcessSlots"
        \/ ReturnedWithBlock /\ err # ErrStateAccess)
           => epochLog = EpochEnds(pre.slot, slot)

C5_Witness ==
    /\ ReturnedWithBlock
    /\ err = NoError
    /\ pre.slot = SlotsPerEpoch - 1
    /\ blk.slot = SlotsPerEpoch
    /\ epochLog = <<SlotsPerEpoch - 1>>

\* C6: when processEffectiveBalanceUpdates has run, every validator either
\* has its balance within max(down, up) of its effective balance, or has the
\* effective balance min(balance - balance mod increment, max), a multiple
\* of the increment that is at most max_effective_balance.
C6_HysteresisBand ==
    pc = "processValidatorsSetUpdates" =>
        \A i \in ValidatorIndices :
            LET bal == st.balances[i]
                eb == st.validators[i].effectiveBalance
                clamped == IF bal - (bal % EffectiveBalanceIncrement)
                                  < MaxEffectiveBalance
                           THEN bal - (bal % EffectiveBalanceIncrement)
                           ELSE MaxEffectiveBalance
            IN  \/ Abs(bal - eb) <= Max(DownwardThreshold, UpwardThreshold)
                \/ /\ eb = clamped
                   /\ eb % EffectiveBalanceIncrement = 0
                   /\ eb <= MaxEffectiveBalance

C6_Witness ==
    /\ pc = "processValidatorsSetUpdates"
    /\ \E i \in ValidatorIndices :
        /\ st.validators[i].effectiveBalance
               # last.validators[i].effectiveBalance
        /\ Abs(st.balances[i] - st.validators[i].effectiveBalance)
               > Max(DownwardThreshold, UpwardThreshold)

\* C7: processEffectiveBalanceUpdates gives the validator at index i the
\* effective balance min(bal - bal mod increment, max) when bal + down < eb
\* or eb + up < bal, with strict comparisons, and leaves it untouched
\* otherwise; balances and everything else in the state are unchanged.
C7_HysteresisRule ==
    pc = "processValidatorsSetUpdates" =>
        /\ \A i \in ValidatorIndices :
            LET bal == last.balances[i]
                eb == last.validators[i].effectiveBalance
                floor == bal - (bal % EffectiveBalanceIncrement)
                new == IF floor < MaxEffectiveBalance
                       THEN floor ELSE MaxEffectiveBalance
            IN  IF bal + DownwardThreshold < eb
                      \/ eb + UpwardThreshold < bal
                THEN st.validators[i]
                         = [last.validators[i] EXCEPT
                               !.effectiveBalance = new]
                ELSE st.validators[i] = last.validators[i]
        /\ st.balances = last.balances
        /\ st = [last EXCEPT !.validators = st.validators]

C7_Witness ==
    /\ pc = "processValidatorsSetUpdates"
    /\ \E i, j \in ValidatorIndices :
        /\ last.balances[i] + DownwardThreshold
               = last.validators[i].effectiveBalance
        /\ st.validators[i] = last.validators[i]
        /\ st.validators[j].effectiveBalance
               > last.validators[j].effectiveBalance

\* C8: Transition with a nil block returns no updates and no error, runs no
\* slot, epoch or block processing, and leaves the state and the
\* validator-set cache as they were.
C8_NilBlock ==
    (pc = "done" /\ mode = "Transition" /\ blk.isNil) =>
        /\ err = NoError
        /\ ret = <<>>
        /\ st = pre
        /\ valSetByEpoch = preCache
        /\ rootLog = EmptyLog
        /\ epochLog = <<>>
        /\ stages = <<>>

C8_Witness ==
    /\ pc = "done"
    /\ mode = "Transition"
    /\ blk.isNil
    /\ st.slot > 0
    /\ err = NoError

\* C9: with skip_validate_result = true a block whose sub-stages all succeed
\* is accepted whatever its state root, and StateRootMismatch is never
\* returned; with the flag false a state root that differs from the computed
\* root is refused with StateRootMismatch.
C9_SkipValidateResult ==
    /\ (pc = "done" /\ ctx.skipValidateResult) => err # ErrStateRootMismatch
    /\ (ReachedStateRootCheck /\ ctx.skipValidateResult) => err = NoError
    /\ (ReachedStateRootCheck /\ ~ctx.skipValidateResult
            /\ blk.stateRoot # HashTreeRoot(st)) =>
           err = ErrStateRootMismatch

C9_Witness ==
    /\ ReachedStateRootCheck
    /\ ctx.skipValidateResult
    /\ blk.stateRoot # HashTreeRoot(st)
    /\ err = NoError

\* processBlockHeader has run on a block whose slot is the slot of the
\* latest block header of the state (ProcessSlots never changes that slot).
HeaderSawBlockAtLatestSlot ==
    /\ ReturnedWithBlock
    /\ Len(stages) >= 1
    /\ blk.slot = pre.latestBlockHeader.slot

\* C10 as stated: a block whose slot equals the slot of the state's latest
\* block header is refused with BlockSlotTooLow, whatever the state.
C10_AlwaysBlockSlotTooLow ==
    HeaderSawBlockAtLatestSlot => err = ErrBlockSlotTooLow

\* C10 amended: a block whose slot equals the slot of the state's latest
\* block header is refused by processBlockHeader: with BlockSlotTooLow when
\* the state is at the block's slot, with SlotMismatch when it is not.
C10_SlotTooLowAfterSlotMatch ==
    HeaderSawBlockAtLatestSlot =>
        /\ stages = <<"processBlockHeader">>
        /\ st = last
        /\ err = IF blk.slot = last.slot
                 THEN ErrBlockSlotTooLow ELSE ErrSlotMismatch

C10_Witness ==
    /\ HeaderSawBlockAtLatestSlot
    /\ blk.slot > 0
    /\ err = ErrBlockSlotTooLow

\* processBlockHeader has refused or accepted the block; on a refusal last
\* is the state the checks were made against.
HeaderRefused == ReturnedWithBlock /\ stages = <<"processBlockHeader">>

\* C11: a block that passes the slot, slot-too-low, proposer-address and
\* parent-root checks and whose proposer is slashed is refused with
\* SlashedProposer and the latest block header is not replaced; no block with
\* a slashed proposer gets past processBlockHeader.
C11_SlashedProposer ==
    /\ (/\ HeaderRefused
        /\ SlotMatches(last, blk)
        /\ SlotAboveLatestHeader(last, blk)
        /\ blk.proposerIndex \in ValidatorIndices
        /\ ProposerMatches(ctx, last, blk)
        /\ ParentRootMatches(last, blk)
        /\ last.validators[blk.proposerIndex].slashed) =>
           /\ err = ErrSlashedProposer
           /\ st.latestBlockHeader = last.latestBlockHeader
           /\ st = last
    /\ pc = "processExecutionPayload" =>
           ~st.validators[blk.proposerIndex].slashed

C11_Witness ==
    /\ HeaderRefused
    /\ err = ErrSlashedProposer
    /\ blk.slot > 0
    /\ ParentRootMatches(last, blk)
    /\ ProposerMatches(ctx, last, blk)
    /\ st.latestBlockHeader = pre.latestBlockHeader

\* The positions a call is in right after the loop of ProcessSlots has
\* incremented the slot, or right after the call started.
AfterSetSlot == {"processSlot", "processBlockHeader", "returnSlots"}

\* C12: during a call state.slot never decreases; a step changes it only by
\* adding one, only the slot increment of the ProcessSlots loop does so and
\* it changes nothing else; no step of ProcessBlock or processEpoch changes
\* it.
C12_SlotAdvancesByOne ==
    pc # "idle" =>
        /\ st.slot >= pre.slot
        /\ st.slot = last.slot \/ st.slot = last.slot + 1
        /\ st.slot # last.slot =>
               /\ pc \in AfterSetSlot
               /\ st = [last EXCEPT !.slot = last.slot + 1]
               /\ stages = <<>>
        /\ pc \notin AfterSetSlot => st.slot = last.slot

C12_Witness ==
    /\ pc = "processBlockHeader"
    /\ st.slot = last.slot + 1
    /\ st.slot >= pre.slot + 2
    /\ epochLog # <<>>

\* The slots from, from + 1, ..., to - 1 in ascending order.
RECURSIVE SlotRange(_, _)
SlotRange(from, to) ==
    IF from >= to THEN <<>> ELSE <<from>> \o SlotRange(from + 1, to)

\* ProcessSlots has left its loop without an accessor error.
SlotsReturned == pc \in {"returnSlots", "processBlockHeader"}

\* What ProcessSlots has done when it returns without an accessor error.
SlotsOutcome ==
    SlotsReturned =>
        /\ pre.slot <= slot =>
               /\ st.slot = slot
               /\ slotLog = SlotRange(pre.slot, slot)
        /\ pre.slot >= slot =>
               /\ st = pre
               /\ slotLog = <<>>
               /\ epochLog = <<>>
               /\ valSetByEpoch = preCache
               /\ res = <<>>

\* C13: ProcessSlots terminates; without an accessor error and with
\* pre.slot <= target it ends with state.slot = target after processSlot has
\* run once for each slot of [pre.slot, target) in ascending order; with
\* pre.slot >= target it takes no step and changes nothing.
C13_ProcessSlotsTerminates ==
    /\ []SlotsOutcome
    /\ (pc \in SlotsPhase) ~> (SlotsReturned \/ err = ErrStateAccess)

C13_Witness ==
    /\ pc = "returnSlots"
    /\ pre.slot > 0
    /\ slot >= pre.slot + 3
    /\ st.slot = slot
    /\ Len(slotLog) = slot - pre.slot

\* A call has returned without error, or the caller holds the state between
\* two calls.
AtEndOfSuccessfulCall == pc = "idle" \/ (pc = "done" /\ err = NoError)

\* C14: at the end of every successful call, from genesis on, the state root
\* of the latest block header is zero exactly when state.slot is the slot of
\* that header.
C14_ZeroStateRootAtHeaderSlot ==
    AtEndOfSuccessfulCall =>
        (st.latestBlockHeader.stateRoot = ZeroRoot
            <=> st.slot = st.latestBlockHeader.slot)

C14_Witness ==
    /\ pc = "done"
    /\ err = NoError
    /\ mode = "ProcessSlots"
    /\ pre.latestBlockHeader.slot > 0
    /\ pre.latestBlockHeader.stateRoot = ZeroRoot
    /\ pre.slot = pre.latestBlockHeader.slot
    /\ st.latestBlockHeader.stateRoot # ZeroRoot
    /\ st.slot > st.latestBlockHeader.slot

\* The slots the call has processed whose ring position is i.
ProcessedAt(i) ==
    {s \in 0..MaxSlot :
        pre.slot <= s /\ s < st.slot /\ s % SlotsPerHistoricalRoot = i}

LargestOf(S) == CHOOSE s \in S : \A t \in S : t <= s

\* C15: when ProcessSlots has processed the slots pre.slot..target-1, every
\* ring position that was written holds what was recorded for the largest
\* processed slot with that position (the state root computed when that slot
\* was processed, and the root of the latest block header), and a position
\* that was not written holds what it held before the call.
C15_RingWrapAround ==
    SlotsReturned =>
        \A i \in RingIndices :
            IF ProcessedAt(i) = {}
            THEN /\ st.stateRoots[i] = pre.stateRoots[i]
                 /\ st.blockRoots[i] = pre.blockRoots[i]
            ELSE /\ st.stateRoots[i] = rootLog[LargestOf(ProcessedAt(i))]
                 /\ st.blockRoots[i]
                        = HeaderHashTreeRoot(st.latestBlockHeader)

C15_Witness ==
    /\ SlotsReturned
    /\ st.slot > pre.slot + SlotsPerHistoricalRoot
    /\ rootLog[pre.slot + SlotsPerHistoricalRoot] # rootLog[pre.slot]
    /\ st.stateRoots[pre.slot % SlotsPerHistoricalRoot]
           = rootLog[pre.slot + SlotsPerHistoricalRoot]

\* C16 as stated: immediately before the slot is incremented from s to
\* s + 1, state_roots[s mod N_h] is the hash-tree-root of the state as it
\* then stands, after the writes of processSlot, the deposit-index
\* correction and any epoch processing for slot s.
C16_RootOfStateBeforeIncrement ==
    pc = "setSlot" =>
        st.stateRoots[st.slot % SlotsPerHistoricalRoot] = HashTreeRoot(st)

\* C16 amended: immediately before the slot is incremented from s to s + 1,
\* state_roots[s mod N_h] is the hash-tree-root the state had when
\* processSlot started on slot s, before the writes of processSlot, the
\* deposit-index correction and any epoch processing for slot s.
C16_RootOfStateBeforeSlotProcessing ==
    pc = "setSlot" =>
        /\ st.slot = stateSlot
        /\ slotLog # <<>>
        /\ slotLog[Len(slotLog)] = st.slot
        /\ st.stateRoots[st.slot % SlotsPerHistoricalRoot] = rootLog[st.slot]

C16_Witness ==
    /\ pc = "setSlot"
    /\ epochLog # <<>>
    /\ epochLog[Len(epochLog)] = st.slot
    /\ st.stateRoots[st.slot % SlotsPerHistoricalRoot] = rootLog[st.slot]
    /\ HashTreeRoot(st) # rootLog[st.slot]

\* C17 as stated: a ProcessSlots call on the Boonet chain that processes
\* slot BoonetFork2Height lowers the eth1 deposit index by exactly one,
\* however many slots it advances; a call that does not process that slot,
\* or runs on another chain, leaves the index unchanged.
C17_FixOnceAtForkSlot ==
    SlotsReturned =>
        st.eth1DepositIndex =
            IF /\ chainId = BoonetEth1ChainID
               /\ pre.slot <= BoonetFork2Height
               /\ BoonetFork2Height < st.slot
            THEN FixedDepositIdx(pre.eth1DepositIndex)
            ELSE pre.eth1DepositIndex

\* The epochs the cache holds a snapshot for.
CachedEpochs == {e \in 0..MaxEpoch : valSetByEpoch[e] # NoSnapshot}

\* Writer w has installed its snapshot and still holds the lock: its update
\* is the most recent one.
JustInstalled(w) == writers[w].pc = "unlock"

InCriticalSection(w) == writers[w].pc \in {"install", "unlock"}

\* C19: a writer mutates the cache only while it holds the write lock, so no
\* two writers are in the mutation at once; every entry of the cache is at
\* all times a whole snapshot, the one the last writer for that epoch
\* installed, and so it is when all writers have finished.
C19_InstalledUnderWriteLock ==
    /\ \A w \in Writers : InCriticalSection(w) => valSetMu = w
    /\ \A w, v \in Writers :
           (InCriticalSection(w) /\ InCriticalSection(v)) => w = v
    /\ \A e \in CachedEpochs :
           /\ DOMAIN valSetByEpoch[e] = ValidatorIndices
           /\ valSetByEpoch[e] = lastInstalled[e]

C19_Witness ==
    \E w, v \in Writers :
        /\ writers[w].pc = "unlock"
        /\ writers[v].pc = "lock"
        /\ writers[v].epoch = writers[w].epoch
        /\ writers[v].current # writers[w].current
        /\ valSetByEpoch[writers[w].epoch] = writers[w].current
        /\ Cardinality(CachedEpochs) >= 2

WithParentRoot(b, r) == [b EXCEPT !.parentBlockRoot = r]

\* C21: a block processBlockHeader refuses is refused with the error of the
\* first failing check, in the order slot match, slot above latest header,
\* proposer address, parent root, proposer not slashed; a proposer-address
\* mismatch yields ProposerMismatch whatever the parent root, the valid one
\* included, and a wrong parent root yields ParentRootMismatch even when the
\* proposer is slashed.
C21_HeaderCheckOrder ==
    HeaderRefused =>
        LET slotOk == SlotMatches(last, blk)
            aboveOk == SlotAboveLatestHeader(last, blk)
            found == blk.proposerIndex \in ValidatorIndices
        IN  /\ ~slotOk => err = ErrSlotMismatch
            /\ (slotOk /\ ~aboveOk) => err = ErrBlockSlotTooLow
            /\ (slotOk /\ aboveOk /\ found
                    /\ ~ProposerMatches(ctx, last, blk)) =>
                   /\ err = ErrProposerMismatch
                   /\ \A r \in Roots :
                          BlockHeaderError(ctx, last, WithParentRoot(blk, r))
                              = ErrProposerMismatch
            /\ (slotOk /\ aboveOk /\ found
                    /\ ProposerMatches(ctx, last, blk)
                    /\ ~ParentRootMatches(last, blk)) =>
                   err = ErrParentRootMismatch
            /\ (slotOk /\ aboveOk /\ found
                    /\ ProposerMatches(ctx, last, blk)
                    /\ ParentRootMatches(last, blk)) =>
                   /\ err = ErrSlashedProposer
                   /\ last.validators[blk.proposerIndex].slashed

C21_Witness ==
    /\ HeaderRefused
    /\ err = ErrParentRootMismatch
    /\ blk.slot > 0
    /\ ProposerMatches(ctx, last, blk)
    /\ last.validators[blk.proposerIndex].slashed
    /\ last.latestBlockHeader.slot > 0

\* The errors each sub-stage of ProcessBlock can return.
StageErrors(stage) ==
    CASE stage = "processBlockHeader" ->
             {ErrSlotMismatch, ErrBlockSlotTooLow, ErrValidatorNotFound,
              ErrProposerMismatch, ErrParentRootMismatch, ErrSlashedProposer}
      [] stage = "processExecutionPayload" -> {ErrExecutionPayloadRejected}
      [] stage = "processWithdrawals" -> {ErrInvalidWithdrawal}
      [] stage = "processRandaoReveal" -> {ErrInvalidRandaoReveal}
      [] stage = "processOperations" -> {ErrInvalidOperation}
      [] stage = "validateStateRoot" -> {ErrStateRootMismatch}

\* The first k sub-stages, in the order of ProcessBlock.
FirstStages(k) == SubSeq(BlockStages, 1, k)

\* C22: the sub-stages of ProcessBlock run in the order header, execution
\* payload, withdrawals, RANDAO reveal, operations, state-root check, each
\* only when all before it succeeded; when Transition has returned, either
\* all six ran and it returned nil, or the last sub-stage that ran is the
\* one that failed and its error is the error returned.
C22_SubStagesFailFast ==
    /\ Len(stages) <= Len(BlockStages)
    /\ stages = FirstStages(Len(stages))
    /\ \A k \in 1..Len(BlockStages) :
           pc = BlockStages[k] =>
               /\ stages = FirstStages(k - 1)
               /\ err = NoError
    /\ (ReturnedWithBlock /\ stages # <<>>) =>
           IF err = NoError
           THEN stages = BlockStages
           ELSE /\ err \in StageErrors(stages[Len(stages)])
                /\ ret = <<>>
    /\ (ReturnedWithBlock /\ ~env.payloadAccepted) =>
           /\ err = ErrExecutionPayloadRejected
           /\ stages = FirstStages(2)
    /\ (ReturnedWithBlock /\ ~env.randaoValid) =>
           /\ err = ErrInvalidRandaoReveal
           /\ stages = FirstStages(4)
    /\ (ReturnedWithBlock /\ ~env.operationsValid) =>
           /\ err = ErrInvalidOperation
           /\ stages = FirstStages(5)

C22_Witness ==
    /\ ReturnedWithBlock
    /\ err = ErrInvalidRandaoReveal
    /\ stages = FirstStages(4)
    /\ blk.body.withdrawal = 1
    /\ epochLog # <<>>

\* The slot has just been incremented.
JustIncremented == pc \in AfterSetSlot /\ st.slot = last.slot + 1

\* C23: processSlot leaves state.slot alone; throughout the iteration of the
\* ProcessSlots loop for slot s the stored slot is the loop counter s, which
\* is the slot processSlot and processEpoch read; the stored slot becomes
\* s + 1 only after processSlot, the deposit-index correction and, at an
\* epoch boundary, the epoch processing for s are done.
C23_ProcessorsSeeLoopSlot ==
    /\ pc \in SlotsPhase => st.slot = stateSlot
    /\ pc = "specialCases" =>
           /\ st.slot = last.slot
           /\ slotLog[Len(slotLog)] = stateSlot
    /\ pc = "processEffectiveBalanceUpdates" =>
           /\ st.slot = last.slot
           /\ slotLog[Len(slotLog)] = stateSlot
           /\ epochLog[Len(epochLog)] = stateSlot
    /\ JustIncremented =>
           /\ st.slot = stateSlot
           /\ slotLog # <<>>
           /\ slotLog[Len(slotLog)] = last.slot
           /\ IsBoundary(last.slot) =>
                  /\ epochLog # <<>>
                  /\ epochLog[Len(epochLog)] = last.slot

C23_Witness ==
    /\ JustIncremented
    /\ IsBoundary(last.slot)
    /\ epochLog[Len(epochLog)] = last.slot
    /\ st.eth1DepositIndex # pre.eth1DepositIndex
    /\ st.slot >= pre.slot + 2

\* One increase_balance(i, 0) followed by one decrease_balance(i, 0) for
\* every validator index i, ascending.
NoOpPairs ==
    [k \in 1..(2 * NumValidators) |->
        [op |-> IF k % 2 = 1 THEN "IncreaseBalance" ELSE "DecreaseBalance",
         index |-> (k - 1) \div 2,
         delta |-> 0]]

\* What the shim is to issue at the boundary slot n of a chain.
ShimOpsAt(chain, n) ==
    IF /\ \/ chain = BartioChainID
          \/ chain = BoonetEth1ChainID /\ n < BoonetFork3Height
       /\ n \div SlotsPerEpoch # GenesisEpoch
    THEN NoOpPairs
    ELSE <<>>

RECURSIVE ShimOpsOver(_, _)
ShimOpsOver(chain, boundaries) ==
    IF boundaries = <<>> THEN <<>>
    ELSE ShimOpsAt(chain, Head(boundaries))
         \o ShimOpsOver(chain, Tail(boundaries))

\* The boundary slots up to one epoch past BoonetFork3Height.
ShimSlots ==
    {n \in 0..(BoonetFork3Height + SlotsPerEpoch) : IsBoundary(n)}

\* C24: the balance operations a call has issued are, for each epoch pass in
\* turn, the no-op pairs of all validators in ascending order when the chain
\* is Bartio, or Boonet below BoonetFork3Height, and the epoch is not the
\* genesis epoch, and none otherwise; they are issued before the effective
\* balances are touched and leave every balance as it was; and on every
\* chain and at every boundary slot processEpoch issues exactly these.
C24_RewardsShim ==
    /\ balanceOps = ShimOpsOver(chainId, epochLog)
    /\ pc = "processEffectiveBalanceUpdates" =>
           /\ st.balances = last.balances
           /\ st.validators = last.validators
    /\ pc = "processEpoch" =>
           \A chain \in ChainIDs, n \in ShimSlots :
               /\ RewardsAndPenaltiesOps(chain, SetSlot(st, n))
                      = ShimOpsAt(chain, n)
               /\ ApplyBalanceOps(st.balances, ShimOpsAt(chain, n))
                      = st.balances

C24_Witness ==
    /\ pc = "processEffectiveBalanceUpdates"
    /\ chainId = BoonetEth1ChainID
    /\ Len(epochLog) = 2
    /\ balanceOps = NoOpPairs
    /\ st.balances[0] < GenesisBalance

\* Transition was called with a block whose slot is below the state's slot.
BlockBelowState ==
    mode = "Transition" /\ ~blk.isNil /\ blk.slot < pre.slot

\* C25: Transition with a block whose slot is lower than state.slot goes
\* straight to processBlockHeader without processing a slot or an epoch,
\* fails there with SlotMismatch, and leaves the state as it was.
C25_LowerBlockSlot ==
    BlockBelowState =>
        /\ pc \in {"processBlockHeader", "done"}
        /\ st = pre
        /\ slotLog = <<>>
        /\ epochLog = <<>>
        /\ balanceOps = <<>>
        /\ valSetByEpoch = preCache
        /\ pc = "done" =>
               /\ err = ErrSlotMismatch
               /\ ret = <<>>
               /\ stages = <<"processBlockHeader">>

C25_Witness ==
    /\ BlockBelowState
    /\ pc = "done"
    /\ err = ErrSlotMismatch
    /\ blk.slot > pre.latestBlockHeader.slot
    /\ pre.latestBlockHeader.slot > 0

\* The concatenation of the sequences of log, in order.
RECURSIVE Concatenation(_)
Concatenation(log) ==
    IF log = <<>> THEN <<>> ELSE Head(log) \o Concatenation(Tail(log))

\* C26: when Transition returns an error it returns no validator updates,
\* whether ProcessSlots failed or ProcessBlock refused the block, whatever
\* the epoch passes had accumulated; when it succeeds on a block it returns
\* the updates of all epoch passes of the call, concatenated in the order of
\* the passes, which is the order of the slots.
C26_NoUpdatesOnError ==
    /\ mode = "Transition" =>
           /\ res = Concatenation(updateLog)
           /\ Len(updateLog) <= Len(epochLog)
           /\ pc \notin {"processEffectiveBalanceUpdates",
                         "processValidatorsSetUpdates", "done"} =>
                  Len(updateLog) = Len(epochLog)
    /\ (pc = "done" /\ mode = "Transition") =>
           IF err # NoError \/ blk.isNil
           THEN ret = <<>>
           ELSE /\ ret = Concatenation(updateLog)
                /\ Len(updateLog) = Len(epochLog)
                /\ epochLog = EpochEnds(pre.slot, blk.slot)

C26_Witness ==
    /\ ReturnedWithBlock
    /\ err = ErrStateRootMismatch
    /\ Len(updateLog) = 2
    /\ updateLog[1] # <<>>
    /\ res # <<>>
    /\ ret = <<>>

\* The deposit-index correction has just been applied: the step before this
\* state was the special-case step of an iteration that needed the fix, and
\* last is the state it was applied to.
FixJustApplied ==
    /\ NeedsDepositIndexFix(chainId, slot, stateSlot)
    /\ \/ pc = "processEpoch"
       \/ pc = "setSlot" /\ ~IsBoundary(stateSlot)

\* C27 as stated: whenever the deposit-index correction is applied, the
\* stored eth1 deposit index afterwards is strictly smaller than before.
C27_FixNeverWraps ==
    FixJustApplied => st.eth1DepositIndex < last.eth1DepositIndex
====
